---- MODULE Spec2Model ----
(***************************************************************************)
(* cmder: one invocation of Spec.Run(ctx) -- the retry loop withRetries,   *)
(* the job (total-timeout) timer, the per-attempt deadline watcher and     *)
(* liveness watcher, and the spawned process as the environment.           *)
(*                                                                         *)
(* Time is discrete (one unit = 1ms) and kept relative to the present: a   *)
(* deadline or a timer is the time left until it, and Tick shortens them   *)
(* all by one.  Goroutine steps take no time: the clock advances only when *)
(* no goroutine step is runnable, but the steps runnable at one instant    *)
(* interleave in every order.                                              *)
(* Canceling a context kills the process started with it in the same step  *)
(* (exec.CommandContext's contract).                                       *)
(***************************************************************************)
EXTENDS Integers, Sequences, FiniteSets, TLC

\* ---------------------------------------------------------------- bounds
MaxRetries == 1
MaxTimeout == 2
MaxExit == 2
MaxBurst == 1
\* Spec values built by New and the With-X methods, and the capacity of a slice
MaxValues == 5
MaxCap == 4
\* writes of one process to its two output streams
MaxWrites == 3
\* writes of one process that reach the signal forwarder one by one
MaxChunks == 11

\* ------------------------------------------------------ program constants
\* make(chan any, 10)
AliveSignalCap == 10
\* curDeadline.Sub(time.Now()) + 1*time.Millisecond
WatcherSlack == 1

VARIABLES
    c,                \* the Spec value Run is called on
    pc,               \* position of the goroutine running Run/withRetries
    i,                \* loop variable of withRetries
    attempts,         \* Run: attempts
    exitCode,         \* Run: exitCode
    err,              \* error returned by the attempt closure
    result,           \* Result.Err once Run has returned
    parentErr,        \* Err() of the caller's context
    jobErr,           \* Err() of jobCtx
    attemptErr,       \* Err() of the attemptCtx of the iteration ("unopened" before the first)
    jobTimedOut,      \* atomic.Bool jobTimedOut
    jobTimer,         \* goroutine of executeAfterDuration(jobCtx, TotalTimeout, ..)
    attemptTimedOut,  \* atomic.Bool attemptTimedOut of the iteration
    attemptDeadline,  \* atomic.Pointer[time.Time] attemptDeadline of the iteration
    watcher,          \* the iteration's goroutine running checkTimeoutFunc
    liveness,         \* the iteration's goroutine reading aliveSignal
    aliveSignal,      \* the iteration's channel, [n, closed]
    lateWatchers,     \* goroutines of checkTimeoutFunc of earlier iterations yet to return
    lateLiveness,     \* goroutines reading aliveSignal of earlier iterations yet to return
    proc,             \* the process of the current attempt
    procCode,         \* the exit status of the attempt's process once it exited on its own
    burst,            \* writes it has made at the present instant
    silent,           \* history: time the running process has been silent, up to AttemptTimeout
    started,          \* history: attempt scopes opened
    calls,            \* history: calls of the retry filter
    how,              \* history: how the last attempt ended
    flagSeen,         \* history: the flag the last call of the retry filter was given
    story,            \* history: how the attempts so far ended, if all in the same way
    hung,             \* history: no process has ended on its own or failed to start
    rescheduled,      \* history: the watcher of the open attempt found its deadline moved
    firedAtEnd,       \* history: an attempt ended in error after the job timer had fired
    heap,             \* the backing arrays of the []string slices allocated so far
    values,           \* the Spec values built so far: the slice header of Args, and Retries
    cells,            \* the per-iteration locals allocated so far: flag, deadline, channel, scope
    tasks,            \* the goroutines of the iterations so far, each with the locals it captured
    CollectAllOutput, \* c.CollectAllOutput
    sinks,            \* c.StdOut and c.StdErr are set
    stdoutBuffer,     \* the three capture buffers of Run
    stderrBuffer,
    combinedBuffer,
    sink,             \* what c.StdOut and c.StdErr have received, per stream
    pipe,             \* per stream, the bytes the process wrote that are not yet read
    copier,           \* per stream, the goroutine of os/exec that copies the pipe
    written,          \* history: the writes of this attempt's process, in the order it made them
    sent              \* history: per stream, the writes of the processes of all attempts

mainv == <<pc, i, attempts, exitCode, err, result>>
ctxv == <<parentErr, jobErr, attemptErr>>
jobv == <<jobTimedOut, jobTimer>>
attv == <<attemptTimedOut, attemptDeadline, watcher, liveness, aliveSignal>>
latev == <<lateWatchers, lateLiveness>>
procv == <<proc, procCode, burst, silent>>
histv == <<started, calls, how, flagSeen, story, hung, rescheduled, firedAtEnd>>
argsv == <<heap, values>>
ownv == <<cells, tasks>>
outv == <<CollectAllOutput, sinks, stdoutBuffer, stderrBuffer, combinedBuffer, sink, pipe,
          copier, written, sent>>
runv == <<mainv, ctxv, jobv, attv, latev, procv, histv>>
vars == <<c, argsv, ownv, outv, runv>>

\* ------------------------------------------------------------ retry filters
\* the errors cmd.Run returns: of a process that ended unsuccessfully, of a failed
\* spawn, and the error of a context that was done before the spawn
RawErrors == {"ExitError", "StartError", "Canceled", "DeadlineExceeded"}

\* mutation: a canceled context counts as a deadline
IsAnyContextError(e) == e \in {"DeadlineExceeded", "Canceled"}

\* errors.Is(err, context.DeadlineExceeded), through any %w wrapping
IsDeadlineExceeded(e) == e = "DeadlineExceeded"

\* mutation: the attempt-timed-out flag is ignored
ErrorOnlyRetryFilter(e, isAttemptTimeout) == IsDeadlineExceeded(e)

TimeoutRetryFilter(e, isAttemptTimeout) ==
    IF IsDeadlineExceeded(e) THEN TRUE
    ELSE IF isAttemptTimeout THEN TRUE
    ELSE FALSE

\* mutation: every error is retried
RetryAnyError(e, isAttemptTimeout) == TRUE

\* mutation: the error of a canceled context is retried
RetryCanceled(e, isAttemptTimeout) == isAttemptTimeout \/ e \in {"DeadlineExceeded", "Canceled"}

DefaultRetryFilter(e, isAttemptTimeout) == TimeoutRetryFilter(e, isAttemptTimeout)

\* the filters of the tests and guides: always retry, never retry, isTimeout only
Filters == {"default", "always", "never", "isTimeout"}

\* mutation: the filter is called with a flag that is never set
FlagDropped(f, e, isAttemptTimeout) ==
    CASE f = "default"   -> DefaultRetryFilter(e, FALSE)
      [] f = "always"    -> TRUE
      [] f = "never"     -> FALSE
      [] f = "isTimeout" -> FALSE

RetryFilter(f, e, isAttemptTimeout) ==
    CASE f = "default"   -> DefaultRetryFilter(e, isAttemptTimeout)
      [] f = "always"    -> TRUE
      [] f = "never"     -> FALSE
      [] f = "isTimeout" -> isAttemptTimeout

\* --------------------------------------------------------------- errors
NoErr == [msg |-> "none", wraps |-> "nil"]
Pending == [msg |-> "pending", wraps |-> "nil"]
\* fmt.Errorf("... %s: %w", c.App, "timeout", context.DeadlineExceeded)
ErrJobTimeout == [msg |-> "timeout", wraps |-> "DeadlineExceeded"]
\* fmt.Errorf("... %s: %w", c.App, err.Error(), err)
ErrWrapped(e) == [msg |-> "raw", wraps |-> e]
\* mutation: the final error wraps nothing
ErrExhaustedNoCause == [msg |-> "timeout and max retries exceeded", wraps |-> "nil"]

\* fmt.Errorf("... %s: %w", c.App, "timeout and max retries exceeded", context.DeadlineExceeded)
ErrExhausted == [msg |-> "timeout and max retries exceeded", wraps |-> "DeadlineExceeded"]

ResultIsDeadline == IsDeadlineExceeded(result.wraps)

\* ------------------------------------------------------------- contexts
\* context.WithCancel(parent): a child of a done parent is done with its error
Derive(parent) == parent
\* mutation: a cancel function that does nothing
NotCanceled(e, cause) == e

\* a cancel function: the first cancellation decides Err()
Cancel(e, cause) == IF e = "none" THEN cause ELSE e
Done(e) == e \notin {"none", "unopened"}

\* mutation: the attempt scopes are not children of jobCtx
NotPropagated(e) == attemptErr

\* a cancellation of jobCtx reaches the attempt scope that is open
Propagate(e) == IF attemptErr = "none" THEN e ELSE attemptErr

\* mutation: a done context does not kill the process
NotKilled(e, by) == proc

\* the process once its context has error e: exec.CommandContext kills a running
\* process whose context became done
Killed(e, by) == IF proc = "running" /\ Done(e) THEN by ELSE proc

\* ------------------------------------------------- goroutines and timers
\* a goroutine of executeAfterDuration: st, and the time left until its timer fires;
\* for the attempt's watcher also the deadline checkTimeoutFunc has loaded
NoWatcher == [st |-> "off", left |-> 0, cur |-> 0]
WatcherIn(st) == [st |-> st, left |-> 0, cur |-> 0]
NoTimer == [st |-> "off", left |-> 0]
NoChannel == [n |-> 0, closed |-> FALSE]
TimerIn(st) == [st |-> st, left |-> 0]

Returned(w) == w.st \in {"off", "returned"}

\* A sleeping goroutine of executeAfterDuration whose context is done before its
\* timer is due can only take <-ctx.Done(): no time passes while it is runnable.
\* It is "stopping", and the time left on its timer is not kept.
SettleTimer(t, e) ==
    IF t.st \in {"armed", "sleeping"} /\ t.left > 0 /\ Done(e)
    THEN [t EXCEPT !.st = "stopping", !.left = 0]
    ELSE t

\* The deadline of an attempt is a local of one loop iteration: once its watcher
\* cannot read it again it is garbage, and the model returns it to its zero value.
Unread(w) == Returned(w) \/ w.st = "stopping"
FreeDeadline(deadline, w) == IF Unread(w) THEN 0 ELSE deadline

\* Once the retry loop has read the flag of an iteration (or returned without
\* reading it) the iteration's flag, deadline, context and channel are seen by its
\* two goroutines alone, and nothing these do can be seen by Run: they are kept
\* only as goroutines that have yet to return.
Late(n, lingers) == IF lingers THEN n + 1 ELSE n

\* ---------------------------------------------------------------- Init
\* Retries is an int that no With-X checks: -1 stands for the negative ones
Specs ==
    [Retries : -1..MaxRetries,
     AttemptTimeout : 0..MaxTimeout,
     TotalTimeout : 0..MaxTimeout,
     ResetAttemptTimeoutOnOutput : BOOLEAN,
     RetryFilter : Filters]

\* a stream of the process
Streams == {"out", "err"}
\* the goroutine that copies a stream, before its first read
Reading == [st |-> "read", p |-> <<>>, m |-> 0]

\* the locals of Run before its first statement
Idle ==
    /\ pc = "init"
    /\ i = 0
    /\ attempts = 0
    /\ exitCode = 0
    /\ err = "nil"
    /\ result = Pending
    /\ parentErr = "none"
    /\ jobErr = "none"
    /\ jobTimedOut = FALSE
    /\ jobTimer = NoTimer
    /\ attemptErr = "unopened"
    /\ attemptTimedOut = FALSE
    /\ attemptDeadline = 0
    /\ watcher = NoWatcher
    /\ liveness = "off"
    /\ aliveSignal = NoChannel
    /\ lateWatchers = 0
    /\ lateLiveness = 0
    /\ proc = "none"
    /\ procCode = 0
    /\ burst = 0
    /\ silent = 0
    /\ started = 0
    /\ calls = 0
    /\ how = "none"
    /\ flagSeen = FALSE
    /\ story = "none"
    /\ hung = TRUE
    /\ rescheduled = FALSE
    /\ firedAtEnd = FALSE
    /\ heap = <<>>
    /\ values = <<>>
    /\ cells = <<>>
    /\ tasks = {}
    /\ stdoutBuffer = <<>>
    /\ stderrBuffer = <<>>
    /\ combinedBuffer = <<>>
    /\ sink = [s \in Streams |-> <<>>]
    /\ pipe = [s \in Streams |-> <<>>]
    /\ copier = [s \in Streams |-> Reading]
    /\ written = <<>>
    /\ sent = [s \in Streams |-> <<>>]

Init ==
    /\ c \in Specs
    /\ Idle
    /\ CollectAllOutput = TRUE
    /\ sinks = FALSE

\* ------------------------------------------------- Run / withRetries
\* Run up to the loop: the locals, jobCtx and the job timer
RunStart ==
    /\ pc = "init"
    /\ attempts' = 0
    /\ exitCode' = 0
    /\ jobErr' = Derive(parentErr)
    /\ jobTimedOut' = FALSE
    /\ jobTimer' = IF c.TotalTimeout > 0
                   THEN SettleTimer([st |-> "armed", left |-> c.TotalTimeout], jobErr')
                   ELSE NoTimer
    /\ i' = 0
    /\ pc' = "loop"
    /\ UNCHANGED <<c, argsv, ownv, outv, err, result, parentErr, attemptErr, attv, latev, procv, histv>>

\* mutation: one iteration too many
LoopCondOneMore == i <= c.Retries + 1

\* for i := 0; i <= c.Retries; i++
LoopCond == i <= c.Retries

\* mutation: a return of withRetries without the deferred cancelJobCtx()
ReturnUncanceled(e) ==
    /\ result' = e
    /\ jobErr' = jobErr
    /\ jobTimer' = jobTimer
    /\ pc' = "done"

\* the return statements of withRetries, with its deferred cancelJobCtx(),
\* and Run's assembly of the Result
Return(e) ==
    /\ result' = e
    /\ jobErr' = Cancel(jobErr, "Canceled")
    /\ jobTimer' = SettleTimer(jobTimer, jobErr')
    /\ pc' = "done"

\* mutation: no deadline ever counts as passed
NeverAfter(deadline) == FALSE

\* time.Now().After(*curDeadline), for the time left until the deadline
After(deadline) == deadline < 0

\* executeAfterDuration(attemptCtx, curDeadline.Sub(time.Now())+1ms, checkTimeoutFunc)
Reschedule(deadline) == [st |-> "sleeping", left |-> deadline + WatcherSlack, cur |-> 0]

\* mutation: the deadline is left as the iteration found it
StaleDeadline == attemptDeadline

\* time.Now().Add(c.AttemptTimeout)
NewDeadline == c.AttemptTimeout

\* mutation: checkTimeoutFunc is called whatever the attempt timeout
HasWatcherAlways == TRUE

\* if c.AttemptTimeout > 0 { ... checkTimeoutFunc() }
HasWatcher == c.AttemptTimeout > 0

\* the head of one iteration: the attempt's flag, deadline, channel and scope,
\* the first (synchronous) call of checkTimeoutFunc, and the liveness goroutine
OpenAttempt ==
    /\ pc = "loop"
    /\ LoopCond
    /\ attemptTimedOut' = FALSE
    /\ aliveSignal' = NoChannel
    /\ attemptErr' = Derive(jobErr)
    /\ watcher' = IF HasWatcher
                  THEN SettleTimer(Reschedule(NewDeadline), attemptErr')
                  ELSE NoWatcher
    /\ attemptDeadline' = FreeDeadline(NewDeadline, watcher')
    /\ liveness' = "running"
    /\ started' = started + 1
    /\ how' = "none"
    /\ flagSeen' = FALSE
    /\ rescheduled' = FALSE
    /\ procCode' = 0
    /\ pc' = "processor"
    /\ UNCHANGED <<c, argsv, ownv, outv, i, attempts, exitCode, err, result, parentErr, jobErr, jobv,
                   latev, proc, burst, silent, calls, story, hung, firedAtEnd>>

\* the loop ran out: the final return of withRetries
Exhausted ==
    /\ pc = "loop"
    /\ ~LoopCond
    /\ Return(ErrExhausted)
    /\ UNCHANGED <<c, argsv, ownv, outv, i, attempts, exitCode, err, parentErr, attemptErr, jobTimedOut,
                   attv, latev, procv, histv>>

\* defer cancelAttemptCtx(); defer close(aliveSignal).  Every receive from a closed
\* channel proceeds, so what it still buffers is not counted.
CloseAttempt ==
    /\ attemptErr' = Cancel(attemptErr, "Canceled")
    /\ aliveSignal' = [n |-> 0, closed |-> TRUE]
    /\ watcher' = SettleTimer(watcher, attemptErr')
    /\ attemptDeadline' = FreeDeadline(attemptDeadline, watcher')

\* the job timer's task has run: the flag is stored and jobCtx is canceled
JobFired == jobTimedOut /\ jobTimer.st = "returned"

\* the processor up to cmd.Run's Start: a done context or a failing spawn make
\* cmd.Run return at once (ProcessState == nil), and the attempt closure returns
ProcessorNoStart(e, h) ==
    /\ pc = "processor"
    /\ attempts' = attempts + 1
    /\ exitCode' = -1
    /\ err' = e
    /\ CloseAttempt
    /\ how' = h
    /\ hung' = (hung /\ h # "startfail")
    /\ firedAtEnd' = (firedAtEnd \/ jobTimedOut)
    /\ pc' = "check"
    /\ UNCHANGED <<c, argsv, ownv, outv, i, result, parentErr, jobErr, jobv, attemptTimedOut, liveness,
                   latev, procv, started, calls, flagSeen, story, rescheduled>>

\* Start finds attemptCtx done and returns its error
ProcessorCtxDone ==
    /\ attemptErr # "none"
    /\ ProcessorNoStart(attemptErr, "ctxdone")

\* the process cannot be created
ProcessorStartFails ==
    /\ attemptErr = "none"
    /\ ProcessorNoStart("StartError", "startfail")

\* the process is created; cmd.Run goes on to wait for it
ProcessorStarts ==
    /\ pc = "processor"
    /\ attemptErr = "none"
    /\ attempts' = attempts + 1
    /\ exitCode' = 0
    /\ proc' = "running"
    /\ procCode' = 0
    /\ burst' = 0
    /\ silent' = 0
    /\ pc' = "wait"
    /\ UNCHANGED <<c, argsv, ownv, outv, i, err, result, ctxv, jobv, attv, latev, histv>>

\* mutation: cmd.Run reports no error, however the process ended
WaitErrNil == "nil"

\* the error of cmd.Run for a process that was started: nil for exit status 0 and
\* an *exec.ExitError otherwise (the writers Run installs are taken to accept every
\* write, so that cmd.Run has no error of its own to report)
WaitErr == IF proc = "exited" /\ procCode = 0 THEN "nil" ELSE "ExitError"
\* an exit state that is not read: the exit code stays what it was
ExitCodeKept == exitCode

\* cmd.ProcessState.ExitCode(): -1 for a process ended by a signal
StateExitCode == IF proc = "exited" THEN procCode ELSE -1

\* mutation: cmd.Run returns without waiting for the process
TerminatedOrNot == TRUE

\* cmd.Run waits: it returns when the process has exited or was killed
Terminated == proc # "running"

\* cmd.Run returns, the processor sets exitCode, the attempt closure returns
WaitReturns ==
    /\ pc = "wait"
    /\ Terminated
    /\ err' = WaitErr
    /\ exitCode' = IF WaitErr # "nil" THEN StateExitCode ELSE exitCode
    /\ CloseAttempt
    /\ how' = proc
    /\ hung' = (hung /\ proc # "exited")
    /\ firedAtEnd' = (firedAtEnd \/ (jobTimedOut /\ WaitErr # "nil"))
    /\ proc' = "none"
    /\ burst' = 0
    /\ pc' = "check"
    /\ UNCHANGED <<c, argsv, ownv, outv, i, attempts, result, parentErr, jobErr, jobv, attemptTimedOut,
                   liveness, latev, procCode, silent, started, calls, flagSeen, story,
                   rescheduled>>

\* mutation: a nil error is treated as a failure
FailedAlways(e) == TRUE

\* err != nil
Failed(e) == e # "nil"

\* how an attempt ended, for the history: by its watcher with the flag seen set, by
\* the process exiting non-zero with no timeout seen, or otherwise
Ended(flag) ==
    CASE how = "killedAttempt" /\ flag -> "timeouts"
      [] how = "exited" /\ Failed(err) /\ ~flag /\ ~jobTimedOut -> "exits"
      [] OTHER -> "mixed"

\* if err != nil { if c.RetryFilter(err, attemptTimedOut.Load()) { continue } ... }
\* return nil
Check ==
    /\ pc = "check"
    /\ IF Failed(err)
       THEN LET flag == attemptTimedOut
                retry == RetryFilter(c.RetryFilter, err, flag)
            IN /\ calls' = calls + 1
               /\ flagSeen' = flag
               /\ story' = IF story \in {"none", Ended(flag)} THEN Ended(flag) ELSE "mixed"
               /\ IF retry
                  THEN /\ i' = i + 1
                       /\ pc' = "loop"
                  ELSE /\ i' = i
                       /\ pc' = "classify"
               /\ UNCHANGED <<result, jobErr, jobTimer>>
       ELSE /\ Return(NoErr)
            /\ story' = "mixed"
            /\ UNCHANGED <<i, calls, flagSeen>>
    /\ lateWatchers' = Late(lateWatchers, ~Returned(watcher))
    /\ lateLiveness' = Late(lateLiveness, liveness = "running")
    /\ attemptTimedOut' = FALSE
    /\ attemptDeadline' = 0
    /\ watcher' = NoWatcher
    /\ liveness' = "off"
    /\ UNCHANGED <<c, argsv, ownv, outv, attempts, exitCode, err, parentErr, attemptErr, jobTimedOut,
                   aliveSignal, procv, started, how, hung, rescheduled, firedAtEnd>>

\* mutation: the job timeout is not looked at
Unclassified(e) == ErrWrapped(e)

\* mutation: every non-retryable failure is reported as the job timeout
ClassifiedAsTimeout(e) == ErrJobTimeout

\* if jobTimedOut.Load() { return ...DeadlineExceeded } else { return ...err }
Classified(e) == IF jobTimedOut THEN ErrJobTimeout ELSE ErrWrapped(e)

\* the non-retryable failure: the return of the classified error
Classify ==
    /\ pc = "classify"
    /\ Return(Classified(err))
    /\ UNCHANGED <<c, argsv, ownv, outv, i, attempts, exitCode, err, parentErr, attemptErr, jobTimedOut,
                   attv, latev, procv, histv>>

\* ------------------------------------------------------ the job timer
\* executeAfterDuration: select { case <-time.After(d): task()  case <-ctx.Done(): }
JobTimerDue == jobTimer.st = "armed" /\ jobTimer.left = 0
JobTimerCanStop == jobTimer.st \in {"armed", "stopping"} /\ Done(jobErr)

\* the task's first statement, jobTimedOut.Store(true)
JobTimerFire ==
    /\ JobTimerDue
    /\ jobTimedOut' = TRUE
    /\ jobTimer' = TimerIn("stored")
    /\ UNCHANGED <<c, argsv, ownv, outv, mainv, ctxv, attv, latev, procv, histv>>

\* the task's second statement, cancelJobCtx()
JobTimerCancel ==
    /\ jobTimer.st = "stored"
    /\ jobErr' = Cancel(jobErr, "Canceled")
    /\ attemptErr' = Propagate(jobErr')
    /\ proc' = Killed(attemptErr', "killedJob")
    /\ jobTimer' = TimerIn("returned")
    /\ watcher' = SettleTimer(watcher, attemptErr')
    /\ attemptDeadline' = FreeDeadline(attemptDeadline, watcher')
    /\ UNCHANGED <<c, argsv, ownv, outv, mainv, parentErr, jobTimedOut, attemptTimedOut, liveness,
                   aliveSignal, latev, procCode, burst, silent, histv>>

\* the select takes <-ctx.Done()
JobTimerStop ==
    /\ JobTimerCanStop
    /\ jobTimer' = TimerIn("returned")
    /\ UNCHANGED <<c, argsv, ownv, outv, mainv, ctxv, jobTimedOut, attv, latev, procv, histv>>

\* ------------------------------------------------ the deadline watcher
WatcherDue == watcher.st = "sleeping" /\ watcher.left = 0
WatcherCanStop == watcher.st \in {"sleeping", "stopping"} /\ Done(attemptErr)

\* the timer of executeAfterDuration fires; checkTimeoutFunc loads the deadline
WatcherWake ==
    /\ WatcherDue
    /\ watcher' = [st |-> "loaded", left |-> 0, cur |-> attemptDeadline]
    /\ UNCHANGED <<c, argsv, ownv, outv, mainv, ctxv, jobv, attemptTimedOut, attemptDeadline, liveness,
                   aliveSignal, latev, procv, histv>>

\* if time.Now().After(*curDeadline) { attemptTimedOut.Store(true) ... } else { reschedule }
WatcherCheck ==
    /\ watcher.st = "loaded"
    /\ IF After(watcher.cur)
       THEN /\ attemptTimedOut' = TRUE
            /\ watcher' = WatcherIn("flagged")
            /\ UNCHANGED <<rescheduled, attemptDeadline>>
       ELSE /\ watcher' = SettleTimer(Reschedule(watcher.cur), attemptErr)
            /\ attemptDeadline' = FreeDeadline(attemptDeadline, watcher')
            /\ rescheduled' = (rescheduled \/ pc = "wait")
            /\ UNCHANGED attemptTimedOut
    /\ UNCHANGED <<c, argsv, ownv, outv, mainv, ctxv, jobv, liveness, aliveSignal, latev, procv, started,
                   calls, how, flagSeen, story, hung, firedAtEnd>>

\* ... cancelAttemptCtx()
WatcherCancel ==
    /\ watcher.st = "flagged"
    /\ attemptErr' = Cancel(attemptErr, "Canceled")
    /\ proc' = Killed(attemptErr', "killedAttempt")
    /\ watcher' = WatcherIn("returned")
    /\ attemptDeadline' = FreeDeadline(attemptDeadline, watcher')
    /\ UNCHANGED <<c, argsv, ownv, outv, mainv, parentErr, jobErr, jobv, attemptTimedOut, liveness,
                   aliveSignal, latev, procCode, burst, silent, histv>>

\* the select of executeAfterDuration takes <-ctx.Done()
WatcherStop ==
    /\ WatcherCanStop
    /\ watcher' = WatcherIn("returned")
    /\ attemptDeadline' = FreeDeadline(attemptDeadline, watcher')
    /\ UNCHANGED <<c, argsv, ownv, outv, mainv, ctxv, jobv, attemptTimedOut, liveness, aliveSignal, latev,
                   procv, histv>>

\* the watcher of an earlier iteration returns
LateWatcherStop ==
    /\ lateWatchers > 0
    /\ lateWatchers' = lateWatchers - 1
    /\ UNCHANGED <<c, argsv, ownv, outv, mainv, ctxv, jobv, attv, lateLiveness, procv, histv>>

\* ------------------------------------------------ the liveness watcher
\* a receive from aliveSignal can proceed: a value is buffered or it is closed
CanReceive == aliveSignal.n > 0 \/ aliveSignal.closed

\* mutation: output does not move the deadline
NotExtended == attemptDeadline

\* mutation: output moves the deadline whatever the option says
ExtendedAlways == NewDeadline

\* if c.ResetAttemptTimeoutOnOutput { attemptDeadline.Store(now + T) }
Extended == IF c.ResetAttemptTimeoutOnOutput THEN NewDeadline ELSE attemptDeadline

\* case <-aliveSignal: one signal is received
LivenessSignal ==
    /\ liveness = "running"
    /\ CanReceive
    /\ aliveSignal' = [aliveSignal EXCEPT !.n = IF @ > 0 THEN @ - 1 ELSE 0]
    /\ attemptDeadline' = FreeDeadline(Extended, watcher)
    /\ UNCHANGED <<c, argsv, ownv, outv, mainv, ctxv, jobv, attemptTimedOut, watcher, liveness, latev,
                   procv, histv>>

\* case <-attemptCtx.Done(): return
LivenessExit ==
    /\ liveness = "running"
    /\ Done(attemptErr)
    /\ liveness' = "exited"
    /\ UNCHANGED <<c, argsv, ownv, outv, mainv, ctxv, jobv, attemptTimedOut, attemptDeadline, watcher,
                   aliveSignal, latev, procv, histv>>

\* the liveness goroutine of an earlier iteration returns
LateLivenessExit ==
    /\ lateLiveness > 0
    /\ lateLiveness' = lateLiveness - 1
    /\ UNCHANGED <<c, argsv, ownv, outv, mainv, ctxv, jobv, attv, lateWatchers, procv, histv>>

\* --------------------------------------------- the process and the caller
\* a write to stdout or stderr reaches the signal forwarder: ch <- struct{}{}
ProcWrite ==
    /\ pc = "wait"
    /\ proc = "running"
    /\ burst < MaxBurst
    /\ aliveSignal.n < AliveSignalCap
    /\ aliveSignal' = [aliveSignal EXCEPT !.n = @ + 1]
    /\ burst' = burst + 1
    /\ silent' = IF silent >= c.AttemptTimeout THEN silent ELSE 0
    /\ UNCHANGED <<c, argsv, ownv, outv, mainv, ctxv, jobv, attemptTimedOut, attemptDeadline, watcher,
                   liveness, latev, proc, procCode, histv>>

\* the process ends on its own with an exit status
ProcExit(code) ==
    /\ pc = "wait"
    /\ proc = "running"
    /\ proc' = "exited"
    /\ procCode' = code
    /\ UNCHANGED <<c, argsv, ownv, outv, mainv, ctxv, jobv, attv, latev, burst, silent, histv>>

\* The caller's context becomes done (canceled, or its own deadline passed): before
\* Run, between two attempts, or while a process runs.  The other steps of Run do
\* not read the context, so a cancellation during them is one at the next of these.
ParentCancel(cause) ==
    /\ pc \in {"init", "loop"} \/ (pc = "wait" /\ proc = "running")
    /\ parentErr = "none"
    /\ parentErr' = cause
    /\ jobErr' = IF pc = "init" THEN jobErr ELSE Cancel(jobErr, cause)
    /\ attemptErr' = Propagate(jobErr')
    /\ proc' = Killed(attemptErr', "killedParent")
    /\ jobTimer' = SettleTimer(jobTimer, jobErr')
    /\ watcher' = SettleTimer(watcher, attemptErr')
    /\ attemptDeadline' = FreeDeadline(attemptDeadline, watcher')
    /\ UNCHANGED <<c, argsv, ownv, outv, mainv, jobTimedOut, attemptTimedOut, liveness, aliveSignal, latev,
                   procCode, burst, silent, histv>>

\* ------------------------------------------------------------ the clock
\* some goroutine can take a step without waiting for the clock
Runnable ==
    \/ pc \in {"init", "loop", "processor", "check", "classify"}
    \/ pc = "wait" /\ proc # "running"
    \/ JobTimerDue \/ JobTimerCanStop \/ jobTimer.st = "stored"
    \/ WatcherDue \/ WatcherCanStop
    \/ watcher.st \in {"loaded", "flagged"}
    \/ liveness = "running" /\ (CanReceive \/ Done(attemptErr))
    \/ lateWatchers > 0 \/ lateLiveness > 0

\* the gap since the process started or last wrote: it counts up to AttemptTimeout
\* and stays there (a gap of AttemptTimeout or more has happened)
Silence == IF proc = "running" /\ silent < c.AttemptTimeout THEN silent + 1 ELSE silent

\* one unit less until a timer fires
Sooner(t) == IF t.st \in {"armed", "sleeping"} THEN [t EXCEPT !.left = @ - 1] ELSE t
\* one unit less until a deadline that the watcher will read; past it, -1 says it all
Nearer(deadline) ==
    IF Unread(watcher) \/ deadline < 0 THEN deadline ELSE deadline - 1

Tick ==
    /\ pc = "wait"
    /\ ~Runnable
    /\ jobTimer' = Sooner(jobTimer)
    /\ watcher' = Sooner(watcher)
    /\ attemptDeadline' = Nearer(attemptDeadline)
    /\ silent' = Silence
    /\ burst' = 0
    /\ UNCHANGED <<c, argsv, ownv, outv, mainv, ctxv, jobTimedOut, attemptTimedOut, liveness, aliveSignal,
                   latev, proc, procCode, histv>>

\* a goroutine of a closed attempt scope has yet to return: of an earlier iteration,
\* or of this one once its attemptCtx is done
Lingering ==
    \/ lateWatchers > 0
    \/ lateLiveness > 0
    \/ Done(attemptErr) /\ (~Returned(watcher) \/ liveness = "running")

\* ----------------------------------------------------------------- Next
Main ==
    \/ RunStart
    \/ OpenAttempt
    \/ Exhausted
    \/ ProcessorCtxDone
    \/ ProcessorStartFails
    \/ ProcessorStarts
    \/ WaitReturns
    \/ Check
    \/ Classify

JobTimer == JobTimerFire \/ JobTimerCancel \/ JobTimerStop

Watchers ==
    \/ WatcherWake
    \/ WatcherCheck
    \/ WatcherCancel
    \/ WatcherStop
    \/ LateWatcherStop
    \/ LivenessSignal
    \/ LivenessExit
    \/ LateLivenessExit

Environment ==
    \/ ProcWrite
    \/ \E code \in 0..MaxExit : ProcExit(code)
    \/ \E cause \in {"Canceled", "DeadlineExceeded"} : ParentCancel(cause)

Next == Main \/ JobTimer \/ Watchers \/ Environment \/ Tick

Spec == Init /\ [][Next]_vars

\* Every goroutine that can take a step is scheduled in the end, and time passes.
\* Nothing is asked of the process or of the caller.
Fairness ==
    /\ WF_vars(Main)
    /\ WF_vars(JobTimer)
    /\ WF_vars(Watchers)
    /\ WF_vars(Tick)

FairSpec == Init /\ [][Next]_vars /\ Fairness

\* ------------------------------------------- New and the With-X methods
\* A []string is a slice header: the backing array, len and cap.  The
\* strings are the cells of the arrays in heap.
ArgVals == {"a", "b"}

\* c.Args as a caller reads it: the first len cells of the backing array
Args(h, v) == SubSeq(h[v.args.arr], 1, v.args.len)

\* the capacity append chooses when the array is full: twice the old one, or what
\* is needed if that is more
Grow(cap, needed) == IF needed > 2 * cap THEN needed ELSE 2 * cap

\* a fresh array of cap cells that starts with xs
Fresh(xs, cap) == [k \in 1..cap |-> IF k <= Len(xs) THEN xs[k] ELSE ""]

\* New(app, args...): the defaults, and Args = appAndArgs[1:] of the variadic array
DefaultSpec ==
    [Retries |-> 0, AttemptTimeout |-> 0, TotalTimeout |-> 0,
     ResetAttemptTimeoutOnOutput |-> FALSE, RetryFilter |-> "default"]

New(x) ==
    /\ Len(values) < MaxValues
    /\ heap' = Append(heap, <<x>>)
    /\ values' = Append(values, [args |-> [arr |-> Len(heap) + 1, len |-> 1, cap |-> 1],
                                 Retries |-> DefaultSpec.Retries])
    /\ UNCHANGED <<c, ownv, outv, runv>>

\* c.Retries = n; return c (as every With-X that assigns one field of the copy)
WithRetries(v, n) ==
    /\ Len(values) < MaxValues
    /\ values' = Append(values, [values[v] EXCEPT !.Retries = n])
    /\ UNCHANGED <<c, heap, ownv, outv, runv>>

\* c.Args = newArgs; return c
WithArgs(v, x) ==
    /\ Len(values) < MaxValues
    /\ heap' = Append(heap, <<x>>)
    /\ values' = Append(values, [values[v] EXCEPT
                                    !.args = [arr |-> Len(heap) + 1, len |-> 1, cap |-> 1]])
    /\ UNCHANGED <<c, ownv, outv, runv>>

\* c.Args = append(c.Args, extraArgs...); return c
WithExtraArgs(v, x) ==
    /\ Len(values) < MaxValues
    /\ LET old == values[v].args
       IN IF old.len + 1 <= old.cap
          THEN /\ heap' = [heap EXCEPT ![old.arr][old.len + 1] = x]
               /\ values' = Append(values, [values[v] EXCEPT !.args.len = old.len + 1])
          ELSE /\ Grow(old.cap, old.len + 1) <= MaxCap
               /\ heap' = Append(heap, Fresh(Append(Args(heap, values[v]), x),
                                             Grow(old.cap, old.len + 1)))
               /\ values' = Append(values, [values[v] EXCEPT
                                               !.args = [arr |-> Len(heap) + 1,
                                                         len |-> old.len + 1,
                                                         cap |-> Grow(old.cap, old.len + 1)]])
    /\ UNCHANGED <<c, ownv, outv, runv>>

ArgsInit == Init /\ c = DefaultSpec

ArgsNext ==
    \/ \E x \in ArgVals : New(x)
    \/ \E v \in 1..Len(values), n \in 0..MaxRetries : WithRetries(v, n)
    \/ \E v \in 1..Len(values), x \in ArgVals : WithArgs(v, x)
    \/ \E v \in 1..Len(values), x \in ArgVals : WithExtraArgs(v, x)

ArgsSpec == ArgsInit /\ [][ArgsNext]_vars

\* --------------------------------------------- the output of an attempt
\* Run under a Spec with Retries >= 0, no timeouts and a filter that retries every error, a
\* caller that never cancels: the processor, the process and the two goroutines
\* with which os/exec copies the pipes of the process to cmd.Stdout and cmd.Stderr.
\* A byte is named by the number of the write that made it.
OutSpecs ==
    {s \in Specs : /\ s.Retries >= 0
                   /\ s.AttemptTimeout = 0
                   /\ s.TotalTimeout = 0
                   /\ ~s.ResetAttemptTimeoutOnOutput
                   /\ s.RetryFilter = "always"}

\* the bytes of one stream among the writes ws
RECURSIVE Stream(_, _)
Stream(ws, s) ==
    IF ws = <<>> THEN <<>>
    ELSE IF ws[1].s = s THEN <<ws[1].b>> \o Stream(Tail(ws), s)
         ELSE Stream(Tail(ws), s)

\* the bytes of the writes ws, in the order they were made
Chrono(ws) == [k \in 1..Len(ws) |-> ws[k].b]

\* "if c.CollectAllOutput" that is taken whatever the flag says
CollectsAlways == TRUE

\* if c.CollectAllOutput
Collects == CollectAllOutput

\* a Write that drops what it is given
Dropped(buf, p) == buf

\* (*bytes.Buffer).Write(p), and the Write of the caller's writer
Written(buf, p) == buf \o p

\* (*bytes.Buffer).Write(p) of a goroutine that found the buffer m bytes long:
\* the buffer is resliced to hold m+len(p) bytes and p is copied to buf[m:]
CopiedAt(buf, m, p) ==
    [k \in 1..(IF Len(buf) > m + Len(p) THEN Len(buf) ELSE m + Len(p)) |->
        IF k > m /\ k <= m + Len(p) THEN p[k - m] ELSE buf[k]]

\* the own capture buffer of a stream after its goroutine wrote p
Captured(buf, s, of, p) == IF Collects /\ s = of THEN Written(buf, p) ELSE buf

\* c.StdOut / c.StdErr after the goroutine of stream s wrote p
Forwarded(s, p) == IF sinks THEN [sink EXCEPT ![s] = Written(@, p)] ELSE sink

\* mutation: the buffers of the attempt before are written on
KeptBuffer(buf) == buf

\* if c.CollectAllOutput { stdoutBuffer = &bytes.Buffer{} ... }
FreshBuffer(buf) == IF Collects THEN <<>> ELSE buf

\* the processor up to cmd.Run: attempts++, the fresh buffers, the two MultiWriters,
\* and the process started
OutAttempt ==
    /\ pc \in {"init", "loop"}
    /\ attempts' = attempts + 1
    /\ exitCode' = 0
    /\ stdoutBuffer' = FreshBuffer(stdoutBuffer)
    /\ stderrBuffer' = FreshBuffer(stderrBuffer)
    /\ combinedBuffer' = FreshBuffer(combinedBuffer)
    /\ pipe' = [s \in Streams |-> <<>>]
    /\ copier' = [s \in Streams |-> Reading]
    /\ written' = <<>>
    /\ proc' = "running"
    /\ procCode' = 0
    /\ pc' = "wait"
    /\ UNCHANGED <<c, argsv, ownv, CollectAllOutput, sinks, sink, sent, i, err, result, ctxv, jobv,
                   attv, latev, burst, silent, histv>>

\* the process writes one byte to a stream
OutWrite(s) ==
    /\ pc = "wait"
    /\ proc = "running"
    /\ Len(written) < MaxWrites
    /\ LET b == Len(written) + 1
       IN /\ written' = Append(written, [s |-> s, b |-> b])
          /\ pipe' = [pipe EXCEPT ![s] = Append(@, b)]
          /\ sent' = [sent EXCEPT ![s] = Append(@, b)]
    /\ UNCHANGED <<c, argsv, ownv, CollectAllOutput, sinks, stdoutBuffer, stderrBuffer,
                   combinedBuffer, sink, copier, runv>>

\* the process ends on its own
OutExit(code) ==
    /\ pc = "wait"
    /\ proc = "running"
    /\ proc' = "exited"
    /\ procCode' = code
    /\ UNCHANGED <<c, argsv, ownv, outv, mainv, ctxv, jobv, attv, latev, burst, silent, histv>>

\* io.Copy reads what is in the pipe and hands it to the MultiWriter, which writes
\* it to the sfw and, when collecting, to the buffer of the stream; without
\* collection the caller's writer is next and the Write is over
CopierRead(s) ==
    /\ pc = "wait"
    /\ copier[s].st = "read"
    /\ pipe[s] # <<>>
    /\ pipe' = [pipe EXCEPT ![s] = <<>>]
    /\ stdoutBuffer' = Captured(stdoutBuffer, s, "out", pipe[s])
    /\ stderrBuffer' = Captured(stderrBuffer, s, "err", pipe[s])
    /\ IF Collects
       THEN /\ copier' = [copier EXCEPT ![s] = [st |-> "begin", p |-> pipe[s], m |-> 0]]
            /\ sink' = sink
       ELSE /\ copier' = copier
            /\ sink' = Forwarded(s, pipe[s])
    /\ UNCHANGED <<c, argsv, ownv, CollectAllOutput, sinks, combinedBuffer, written, sent, runv>>

\* combinedBuffer.Write(p) begins: the length of the buffer is read
CopierBegin(s) ==
    /\ pc = "wait"
    /\ copier[s].st = "begin"
    /\ copier' = [copier EXCEPT ![s].st = "end", ![s].m = Len(combinedBuffer)]
    /\ UNCHANGED <<c, argsv, ownv, CollectAllOutput, sinks, stdoutBuffer, stderrBuffer,
                   combinedBuffer, sink, pipe, written, sent, runv>>

\* combinedBuffer.Write(p) ends: the bytes are copied; then the caller's writer
CopierEnd(s) ==
    /\ pc = "wait"
    /\ copier[s].st = "end"
    /\ combinedBuffer' = CopiedAt(combinedBuffer, copier[s].m, copier[s].p)
    /\ sink' = Forwarded(s, copier[s].p)
    /\ copier' = [copier EXCEPT ![s] = Reading]
    /\ UNCHANGED <<c, argsv, ownv, CollectAllOutput, sinks, stdoutBuffer, stderrBuffer, pipe,
                   written, sent, runv>>

\* io.Copy reads the end of the pipe of a process that has ended
CopierEOF(s) ==
    /\ pc = "wait"
    /\ proc # "running"
    /\ copier[s].st = "read"
    /\ pipe[s] = <<>>
    /\ copier' = [copier EXCEPT ![s].st = "eof"]
    /\ UNCHANGED <<c, argsv, ownv, CollectAllOutput, sinks, stdoutBuffer, stderrBuffer,
                   combinedBuffer, sink, pipe, written, sent, runv>>

\* cmd.Run returns once the process has ended and both goroutines are done; the
\* processor sets exitCode
OutWait ==
    /\ pc = "wait"
    /\ proc # "running"
    /\ \A s \in Streams : copier[s].st = "eof"
    /\ err' = WaitErr
    /\ exitCode' = IF WaitErr # "nil" THEN StateExitCode ELSE exitCode
    /\ pc' = "check"
    /\ UNCHANGED <<c, argsv, ownv, outv, i, attempts, result, ctxv, jobv, attv, latev, procv, histv>>

\* the end of a loop iteration under a filter that answers true, and the return of
\* Run when there is no further iteration
OutCheck ==
    /\ pc = "check"
    /\ IF Failed(err)
       THEN /\ i' = i + 1
            /\ pc' = IF i + 1 <= c.Retries THEN "loop" ELSE "done"
            /\ result' = IF i + 1 <= c.Retries THEN result ELSE ErrExhausted
       ELSE /\ i' = i
            /\ pc' = "done"
            /\ result' = NoErr
    /\ UNCHANGED <<c, argsv, ownv, outv, attempts, exitCode, err, ctxv, jobv, attv, latev, procv,
                   histv>>

OutInit ==
    /\ c \in OutSpecs
    /\ Idle
    /\ CollectAllOutput \in BOOLEAN
    /\ sinks \in BOOLEAN

OutNext ==
    \/ OutAttempt
    \/ \E s \in Streams : OutWrite(s)
    \/ \E code \in 0..MaxExit : OutExit(code)
    \/ \E s \in Streams : CopierRead(s)
    \/ \E s \in Streams : CopierBegin(s)
    \/ \E s \in Streams : CopierEnd(s)
    \/ \E s \in Streams : CopierEOF(s)
    \/ OutWait
    \/ OutCheck

OutSpec == OutInit /\ [][OutNext]_vars

\* ------------------------------------------ the signal forwarder's channel
\* One attempt of a Spec without timeouts and without collection: the sfw is the
\* first target of the two MultiWriters, the caller's writer, when set, the second.
\* The goroutines of os/exec hand each chunk they read to sfw.Write, which sends on
\* aliveSignal; the liveness goroutine receives until attemptCtx is done.
SinkSpecs ==
    {s \in OutSpecs : s.Retries = 0}

\* Run up to cmd.Run's Start: the contexts, the channel, the liveness goroutine, the
\* two MultiWriters and the process
SinkAttempt ==
    /\ pc = "init"
    /\ jobErr' = Derive(parentErr)
    /\ attemptErr' = Derive(jobErr')
    /\ aliveSignal' = NoChannel
    /\ liveness' = "running"
    /\ attempts' = attempts + 1
    /\ exitCode' = 0
    /\ pipe' = [s \in Streams |-> <<>>]
    /\ copier' = [s \in Streams |-> Reading]
    /\ written' = <<>>
    /\ proc' = "running"
    /\ procCode' = 0
    /\ started' = started + 1
    /\ pc' = "wait"
    /\ UNCHANGED <<c, argsv, ownv, CollectAllOutput, sinks, stdoutBuffer, stderrBuffer, combinedBuffer,
                   sink, sent, i, err, result, parentErr, jobv, attemptTimedOut, attemptDeadline,
                   watcher, latev, burst, silent, calls, how, flagSeen, story, hung,
                   rescheduled, firedAtEnd>>

\* the process, one that writes to its stdout alone, writes one chunk
SinkWrite ==
    /\ pc = "wait"
    /\ proc = "running"
    /\ Len(written) < MaxChunks
    /\ LET b == Len(written) + 1
       IN /\ written' = Append(written, [s |-> "out", b |-> b])
          /\ pipe' = [pipe EXCEPT !["out"] = Append(@, b)]
          /\ sent' = [sent EXCEPT !["out"] = Append(@, b)]
    /\ UNCHANGED <<c, argsv, ownv, CollectAllOutput, sinks, stdoutBuffer, stderrBuffer,
                   combinedBuffer, sink, copier, runv>>

\* io.Copy reads what is in the pipe and calls the MultiWriter's Write, whose first
\* target is the sfw
SinkRead(s) ==
    /\ pc = "wait"
    /\ copier[s].st = "read"
    /\ pipe[s] # <<>>
    /\ pipe' = [pipe EXCEPT ![s] = <<>>]
    /\ copier' = [copier EXCEPT ![s] = [st |-> "send", p |-> pipe[s], m |-> 0]]
    /\ UNCHANGED <<c, argsv, ownv, CollectAllOutput, sinks, stdoutBuffer, stderrBuffer,
                   combinedBuffer, sink, written, sent, runv>>

\* a send on aliveSignal can proceed: the buffer has room (no receiver waits
\* unless the buffer is empty, and then it has room)
CanSend == aliveSignal.n < AliveSignalCap

\* mutation: a Write that reports no byte written
SfwShort(ch, p) == [ch |-> [ch EXCEPT !.n = @ + 1], n |-> 0, err |-> "nil"]

\* sfw.Write(p): rw.fn() is ch <- struct{}{}; then return len(p), nil
SfwWrite(ch, p) == [ch |-> [ch EXCEPT !.n = @ + 1], n |-> Len(p), err |-> "nil"]

\* io.MultiWriter goes on to its next writer after a Write that returned no error
\* and len(p); otherwise it returns the error, or io.ErrShortWrite
Accepted(r, p) == r.err = "nil" /\ r.n = Len(p)

\* the MultiWriter's Write of the chunk the goroutine holds: sfw.Write, then the
\* caller's writer; io.Copy reads on, or ends at the error
SinkSend(s) ==
    /\ pc = "wait"
    /\ copier[s].st = "send"
    /\ CanSend
    /\ LET r == SfwWrite(aliveSignal, copier[s].p)
       IN /\ aliveSignal' = r.ch
          /\ sink' = IF Accepted(r, copier[s].p) THEN Forwarded(s, copier[s].p) ELSE sink
          /\ copier' = [copier EXCEPT ![s] = IF Accepted(r, copier[s].p)
                                             THEN Reading
                                             ELSE [Reading EXCEPT !.st = "eof"]]
    /\ UNCHANGED <<c, argsv, ownv, CollectAllOutput, sinks, stdoutBuffer, stderrBuffer,
                   combinedBuffer, pipe, written, sent, mainv, ctxv, jobv,
                   attemptTimedOut, attemptDeadline, watcher, liveness, latev, procv, histv>>

\* cmd.Run returns once the process has ended and both goroutines are done; the
\* processor sets exitCode and the attempt closure runs its defers
SinkWait ==
    /\ pc = "wait"
    /\ Terminated
    /\ \A s \in Streams : copier[s].st = "eof"
    /\ err' = WaitErr
    /\ exitCode' = IF WaitErr # "nil" THEN StateExitCode ELSE exitCode
    /\ CloseAttempt
    /\ pc' = "check"
    /\ UNCHANGED <<c, argsv, ownv, outv, i, attempts, result, parentErr, jobErr, jobv,
                   attemptTimedOut, liveness, latev, procv, histv>>

SinkInit ==
    /\ c \in SinkSpecs
    /\ Idle
    /\ CollectAllOutput = FALSE
    /\ sinks \in BOOLEAN

SinkNext ==
    \/ SinkAttempt
    \/ SinkWrite
    \/ \E s \in Streams : SinkRead(s)
    \/ \E s \in Streams : SinkSend(s)
    \/ LivenessSignal
    \/ LivenessExit
    \/ \E code \in 0..MaxExit : ProcExit(code)
    \/ \E cause \in {"Canceled", "DeadlineExceeded"} : pc = "wait" /\ ParentCancel(cause)
    \/ \E s \in Streams : CopierEOF(s)
    \/ SinkWait
    \/ OutCheck

SinkSpec == SinkInit /\ [][SinkNext]_vars

\* the goroutines of Run, of os/exec and of the attempt are scheduled fairly; the
\* process and the caller are not obliged to do anything
SinkFairness ==
    /\ WF_vars(SinkAttempt \/ SinkWait \/ OutCheck)
    /\ WF_vars(\E s \in Streams : SinkRead(s) \/ SinkSend(s) \/ CopierEOF(s))
    /\ WF_vars(LivenessSignal \/ LivenessExit)

SinkFairSpec == SinkSpec /\ SinkFairness

\* ------------------------------------- the locals of one loop iteration
\* attemptTimedOut and attemptDeadline are declared in the body of the loop, and
\* aliveSignal and attemptCtx in the closure it calls: each iteration allocates its
\* own, and the goroutines it starts capture these.  A cell holds the locals of one
\* iteration; owner is the iteration that initialised it, flagBy and deadlineBy the
\* iteration whose code stored last, flagAt the iteration that ran when the flag
\* was stored.  Time is left out: every outcome of a comparison with the clock is
\* allowed.
OwnSpecs ==
    {s \in Specs : s.Retries >= 0 /\ s.TotalTimeout = 0 /\ s.RetryFilter = "always"}

\* mutation: the locals are declared once, before the loop
SameCell(cs) == IF cs = <<>> THEN Len(cs) + 1 ELSE Len(cs)

\* a declaration in the loop body: a new variable for every iteration
NewCell(cs) == Len(cs) + 1

\* the locals at index k (new or not) of cs become cell
Put(cs, k, cell) == IF k > Len(cs) THEN Append(cs, cell) ELSE [cs EXCEPT ![k] = cell]

\* attemptTimedOut := atomic.Bool{}; attemptDeadline.Store(now + T);
\* make(chan any, 10); context.WithCancel(jobCtx)
InitialCell(att) ==
    [owner |-> att, flag |-> FALSE, flagBy |-> att, flagAt |-> att, deadlineBy |-> att,
     n |-> 0, closed |-> FALSE, done |-> FALSE]

\* the locals of the iteration that runs
Current == CHOOSE k \in 1..Len(cells) : cells[k].owner = i

\* the goroutines an iteration starts: the one of executeAfterDuration when there
\* is an attempt timeout, and the one that reads aliveSignal
Started(att, k) ==
    {[kind |-> "liveness", att |-> att, ref |-> k, st |-> "select"]}
    \cup (IF HasWatcher
          THEN {[kind |-> "watcher", att |-> att, ref |-> k, st |-> "sleeping"]}
          ELSE {})

OwnRest == <<c, argsv, outv, attempts, exitCode, err, result, ctxv, jobv, attv, latev, procCode,
             silent, histv>>

\* the head of an iteration up to the start of the process
OwnOpen ==
    /\ pc \in {"init", "loop"}
    /\ LoopCond
    /\ cells' = Put(cells, NewCell(cells), InitialCell(i))
    /\ tasks' = tasks \cup Started(i, NewCell(cells))
    /\ proc' = "running"
    /\ burst' = 0
    /\ pc' = "wait"
    /\ UNCHANGED <<i, OwnRest>>

\* the process writes: sfw.Write sends on the aliveSignal the processor was given
OwnWrite ==
    /\ pc = "wait"
    /\ proc = "running"
    /\ burst < MaxWrites
    /\ cells[Current].n < AliveSignalCap
    /\ cells' = [cells EXCEPT ![Current].n = @ + 1]
    /\ burst' = burst + 1
    /\ UNCHANGED <<pc, i, proc, tasks, OwnRest>>

\* cmd.Run returns (the process ended, or was killed because attemptCtx is done) and
\* the closure runs its defers
OwnEnd ==
    /\ pc = "wait"
    /\ cells' = [cells EXCEPT ![Current].done = TRUE, ![Current].closed = TRUE,
                              ![Current].n = 0]
    /\ proc' = "none"
    /\ pc' = "check"
    /\ UNCHANGED <<i, burst, tasks, OwnRest>>

\* c.RetryFilter(err, attemptTimedOut.Load()) of a failed attempt, i++, or the
\* return of a successful one
OwnCheck ==
    /\ pc = "check"
    /\ \/ /\ i' = i + 1
          /\ pc' = IF i + 1 <= c.Retries THEN "loop" ELSE "done"
       \/ /\ i' = i
          /\ pc' = "done"
    /\ UNCHANGED <<proc, burst, cells, tasks, OwnRest>>

\* task t goes on as u (or returns)
Becomes(t, u) == tasks' = (tasks \ {t}) \cup u

\* case <-time.After(duration): checkTimeoutFunc loads the deadline
OwnWake(t) ==
    /\ t.kind = "watcher"
    /\ t.st = "sleeping"
    /\ Becomes(t, {[t EXCEPT !.st = "loaded"]})
    /\ UNCHANGED <<pc, i, proc, burst, cells, OwnRest>>

\* time.Now().After(*curDeadline): attemptTimedOut.Store(true)
OwnStore(t) ==
    /\ t.kind = "watcher"
    /\ t.st = "loaded"
    /\ cells' = [cells EXCEPT ![t.ref].flag = TRUE, ![t.ref].flagBy = t.att,
                              ![t.ref].flagAt = i]
    /\ Becomes(t, {[t EXCEPT !.st = "flagged"]})
    /\ UNCHANGED <<pc, i, proc, burst, OwnRest>>

\* else: executeAfterDuration(attemptCtx, ...) again
OwnSleep(t) ==
    /\ t.kind = "watcher"
    /\ t.st = "loaded"
    /\ Becomes(t, {[t EXCEPT !.st = "sleeping"]})
    /\ UNCHANGED <<pc, i, proc, burst, cells, OwnRest>>

\* cancelAttemptCtx() of checkTimeoutFunc, which then returns
OwnCancel(t) ==
    /\ t.kind = "watcher"
    /\ t.st = "flagged"
    /\ cells' = [cells EXCEPT ![t.ref].done = TRUE]
    /\ Becomes(t, {})
    /\ UNCHANGED <<pc, i, proc, burst, OwnRest>>

\* case <-aliveSignal of the liveness goroutine, and its Store when output resets
\* the deadline
OwnReceive(t) ==
    /\ t.kind = "liveness"
    /\ cells[t.ref].n > 0 \/ cells[t.ref].closed
    /\ cells' = [cells EXCEPT ![t.ref].n = IF @ > 0 THEN @ - 1 ELSE 0,
                              ![t.ref].deadlineBy =
                                  IF c.ResetAttemptTimeoutOnOutput THEN t.att ELSE @]
    /\ UNCHANGED <<pc, i, proc, burst, tasks, OwnRest>>

\* case <-ctx.Done() of either goroutine
OwnReturn(t) ==
    /\ t.st \in {"sleeping", "select"}
    /\ cells[t.ref].done
    /\ Becomes(t, {})
    /\ UNCHANGED <<pc, i, proc, burst, cells, OwnRest>>

OwnInit ==
    /\ c \in OwnSpecs
    /\ Idle
    /\ CollectAllOutput = TRUE
    /\ sinks = FALSE

OwnNext ==
    \/ OwnOpen
    \/ OwnWrite
    \/ OwnEnd
    \/ OwnCheck
    \/ \E t \in tasks : OwnWake(t)
    \/ \E t \in tasks : OwnStore(t)
    \/ \E t \in tasks : OwnSleep(t)
    \/ \E t \in tasks : OwnCancel(t)
    \/ \E t \in tasks : OwnReceive(t)
    \/ \E t \in tasks : OwnReturn(t)

OwnSpec == OwnInit /\ [][OwnNext]_vars

\* ================================================================ claims

\* C1: one call of Run opens at most Retries+1 attempts, the processor is never
\* invoked more often than attempts were opened, and when Run has returned
\* Result.Attempts is the number of attempts opened.
C1_AttemptsBounded ==
    /\ started <= c.Retries + 1
    /\ attempts <= started
    /\ (pc = "done" => attempts = started)

\* C1 witness: Run has returned after using all of at least two attempts.
C1_Witness == pc = "done" /\ c.Retries > 0 /\ attempts = c.Retries + 1

\* C2: when an attempt's process run has returned no error, the next step of Run
\* is its return with a nil error, without a call of the retry filter and without
\* another attempt; every attempt before it failed and was retried, so Attempts
\* is the 1-based index of this one; and once Run has returned nothing of this
\* changes any more.
C2_FirstSuccessEnds ==
    [][ /\ (pc = "check" /\ err = "nil" /\ pc' # pc) =>
              /\ pc' = "done"
              /\ result' = NoErr
              /\ calls' = calls
              /\ started' = started
              /\ attempts' = attempts
              /\ attempts = i + 1
              /\ calls = i
        /\ (pc = "done") =>
              /\ pc' = "done"
              /\ result' = result
              /\ calls' = calls
              /\ started' = started
              /\ attempts' = attempts ]_vars

\* C2 witness: Run has returned success from its second attempt.
C2_Witness == pc = "done" /\ result = NoErr /\ attempts = 2 /\ calls = 1

\* C3: with Retries >= 0, the default filter, no total timeout, an attempt timeout, an uncanceled
\* caller and processes that never end on their own, a Run that has returned made
\* exactly Retries+1 attempts, each ended by its deadline watcher with the flag
\* seen set, and its error is context.DeadlineExceeded.
C3_AlwaysTimingOut ==
    (/\ pc = "done"
     /\ c.Retries >= 0
     /\ c.RetryFilter = "default"
     /\ c.TotalTimeout = 0
     /\ c.AttemptTimeout > 0
     /\ parentErr = "none"
     /\ hung)
    => (/\ attempts = c.Retries + 1
        /\ story = "timeouts"
        /\ ResultIsDeadline)

\* C3 witness: such a Run with retries has returned.
C3_Witness ==
    /\ pc = "done"
    /\ c.RetryFilter = "default"
    /\ c.TotalTimeout = 0
    /\ c.AttemptTimeout > 0
    /\ c.Retries > 0
    /\ parentErr = "none"
    /\ hung
    /\ how = "killedAttempt"

\* C4: with the default filter, when every attempt ended by its process exiting
\* with a non-zero status, no attempt timeout seen and the total timeout not
\* fired, Run has made one attempt, ExitCode is that status and the error is not
\* context.DeadlineExceeded.
C4_FailingExitNotRetried ==
    (/\ pc = "done"
     /\ c.RetryFilter = "default"
     /\ story = "exits"
     /\ ~jobTimedOut)
    => (/\ attempts = 1
        /\ exitCode = procCode
        /\ exitCode > 0
        /\ result # NoErr
        /\ ~ResultIsDeadline)

\* C4 witness: a process exited with status 2 under a Spec with retries and both
\* timeouts set.
C4_Witness ==
    /\ pc = "done"
    /\ c.RetryFilter = "default"
    /\ story = "exits"
    /\ ~jobTimedOut
    /\ c.Retries > 0
    /\ c.AttemptTimeout > 0
    /\ c.TotalTimeout > 0
    /\ exitCode = 2

\* C5: when the loop ran out (the filter answered true after each of the Retries+1
\* attempts), Run returns the "timeout and max retries exceeded" error, which is
\* context.DeadlineExceeded, with Attempts = Retries+1.
C5_RetriesExhausted ==
    (pc = "done" /\ i > c.Retries)
    => (/\ ResultIsDeadline
        /\ result.msg = "timeout and max retries exceeded"
        /\ attempts = c.Retries + 1
        /\ calls = c.Retries + 1)

\* C5 witness: retries exhausted by processes that exited on their own, with no
\* timeout configured at all.
C5_Witness ==
    /\ pc = "done"
    /\ i > c.Retries
    /\ c.Retries > 0
    /\ c.AttemptTimeout = 0
    /\ c.TotalTimeout = 0
    /\ story = "exits"

C11_StartFailureNotRetried ==
    [][(pc = "check" /\ how = "startfail") => (pc' # "loop" /\ i' = i)]_vars

C14_WithLeavesOthers ==
    [][\A v \in 1..Len(values) :
          /\ Len(values') >= Len(values)
          /\ Args(heap', values'[v]) = Args(heap, values[v])
          /\ values'[v].Retries = values[v].Retries]_vars

\* C15: with collection, when Run has returned, the combined capture is the bytes
\* of the writes of the final attempt's process in the order the process made them.
C15_CombinedChronological ==
    (pc = "done" /\ CollectAllOutput) => combinedBuffer = Chrono(written)

\* C16: every byte reaches the destinations of its stream once and in write order.
\* At every moment the captured stdout (stderr) is a prefix of the stdout (stderr)
\* writes of the attempt and what the caller's writer of a stream has received is
\* a prefix of the writes of all attempts to that stream; once cmd.Run has
\* returned the captures equal the writes of the attempt, and the caller's writers
\* hold the same bytes besides the buffers.
C16_StreamDelivery ==
    /\ CollectAllOutput =>
          /\ Len(stdoutBuffer) <= Len(Stream(written, "out"))
          /\ stdoutBuffer = SubSeq(Stream(written, "out"), 1, Len(stdoutBuffer))
          /\ Len(stderrBuffer) <= Len(Stream(written, "err"))
          /\ stderrBuffer = SubSeq(Stream(written, "err"), 1, Len(stderrBuffer))
    /\ \A s \in Streams :
          /\ Len(sink[s]) <= Len(sent[s])
          /\ sink[s] = SubSeq(sent[s], 1, Len(sink[s]))
    /\ (pc \in {"check", "loop", "done"}) =>
          /\ CollectAllOutput =>
                /\ stdoutBuffer = Stream(written, "out")
                /\ stderrBuffer = Stream(written, "err")
          /\ sinks => \A s \in Streams : sink[s] = sent[s]

\* C16 witness: Run has returned from a second attempt whose process wrote to both
\* streams, with collection and the caller's writers.
C16_Witness ==
    /\ pc = "done"
    /\ CollectAllOutput
    /\ sinks
    /\ attempts = 2
    /\ Len(stdoutBuffer) = 2
    /\ Len(stderrBuffer) = 1
    /\ Len(sink["out"]) > 2

\* C17: without collection the three capture buffers are empty at every moment of
\* every attempt, and once cmd.Run has returned the caller's writers hold every
\* write of every attempt.
C17_NoCollection ==
    ~CollectAllOutput =>
        /\ stdoutBuffer = <<>>
        /\ stderrBuffer = <<>>
        /\ combinedBuffer = <<>>
        /\ (pc \in {"check", "loop", "done"} /\ sinks) => \A s \in Streams : sink[s] = sent[s]

\* C17 witness: without collection Run has returned from a second attempt, and
\* both of the caller's writers have received output.
C17_Witness ==
    /\ pc = "done"
    /\ ~CollectAllOutput
    /\ sinks
    /\ attempts = 2
    /\ Len(written) = MaxWrites
    /\ sink["out"] # <<>>
    /\ sink["err"] # <<>>

\* C18: when Run has returned, ExitCode is that of the final attempt: 0 when its
\* process exited with status 0 (and then the error is nil), the status of a process
\* that exited with a failing one, and -1 when the process was not started or was
\* ended by a signal; and ExitCode is 0 whenever the error is nil, whatever
\* earlier attempts recorded.
C18_ExitCodeOfFinalAttempt ==
    pc = "done" =>
        /\ (how = "exited" /\ procCode = 0) => (exitCode = 0 /\ result = NoErr)
        /\ (how = "exited" /\ procCode # 0) => exitCode = procCode
        /\ (how \in {"startfail", "ctxdone"}) => exitCode = -1
        /\ (how \in {"killedAttempt", "killedJob", "killedParent"}) => exitCode = -1
        /\ result = NoErr => exitCode = 0

\* C18 witness: with no timeout and no cancellation the first attempt failed, so
\* that it recorded a non-zero exit code, and was retried; the process of the
\* second one exited with status 0.
C18_Witness ==
    /\ pc = "done"
    /\ c.AttemptTimeout = 0
    /\ c.TotalTimeout = 0
    /\ parentErr = "none"
    /\ attempts = 2
    /\ calls = 1
    /\ how = "exited"
    /\ procCode = 0
    /\ exitCode = 0
    /\ result = NoErr

\* C19: when Run has returned, ExitCode is 0 exactly when the error is nil; an
\* error that is context.DeadlineExceeded and a start failure come with a
\* non-zero ExitCode.  (Fails for a negative Retries: the loop body never runs,
\* exitCode keeps its initial 0 and the error is "timeout and max retries exceeded".)
C19_ZeroIffNil ==
    pc = "done" =>
        /\ exitCode = 0 <=> result = NoErr
        /\ ResultIsDeadline => exitCode # 0
        /\ how = "startfail" => exitCode # 0

\* C20: when Run has returned, Attempts is at least 1 and is the 1-based number of
\* the attempt that succeeded or failed last: one more than the retries made.
\* (Fails for a negative Retries: no attempt is made and Attempts is 0.)
C20_AttemptsOneBased ==
    pc = "done" =>
        /\ attempts >= 1
        /\ attempts = started
        /\ attempts = (IF i > c.Retries THEN i ELSE i + 1)

\* C21: when Run has returned, its error is nil exactly when an attempt was made
\* and the process of the last one exited with status 0; an attempt that ended in
\* any other way, and a loop that made none or ran out, give a non-nil error.
C21_NilIffSuccess ==
    pc = "done" =>
        /\ result = NoErr <=> (attempts >= 1 /\ how = "exited" /\ procCode = 0)
        /\ (how \in {"startfail", "ctxdone", "killedAttempt", "killedJob", "killedParent"})
              => result # NoErr
        /\ (how = "exited" /\ procCode # 0) => result # NoErr
        /\ i > c.Retries => result # NoErr
        /\ result # Pending

\* C21 witness: Run has returned nil for a process that exited with status 0 while
\* the job timer had already stored its flag.
C21_Witness ==
    /\ pc = "done"
    /\ result = NoErr
    /\ how = "exited"
    /\ jobTimedOut
    /\ attempts = 2

C23_NoWatcherWithoutTimeout ==
    c.AttemptTimeout = 0 =>
        /\ watcher = NoWatcher
        /\ lateWatchers = 0
        /\ ~attemptTimedOut
        /\ ~flagSeen
        /\ ~rescheduled
        /\ proc \in {"none", "running", "exited", "killedJob", "killedParent"}
        /\ how \in {"none", "exited", "startfail", "ctxdone", "killedJob", "killedParent"}
        /\ (proc \in {"killedJob", "killedParent"} \/ how \in {"ctxdone", "killedJob", "killedParent"})
              => Done(jobErr)

\* C23 witness: without an attempt timeout, retries were exhausted by attempts the
\* job timer ended.
C23_Witness ==
    /\ c.AttemptTimeout = 0
    /\ c.TotalTimeout > 0
    /\ pc = "done"
    /\ attempts = 2
    /\ how \in {"killedJob", "ctxdone"}
    /\ story = "mixed"
    /\ jobTimedOut

\* C24: the flag the retry filter is given is true only for an attempt whose
\* process was killed by the attempt's own deadline watcher.
C24_FlagOnlyFromWatcher ==
    (pc = "check" /\ Failed(err) /\ attemptTimedOut) => how = "killedAttempt"

\* C25: the watcher sets the flag, and cancels the attempt scope, only when the
\* deadline that is stored at that moment has passed; and a watcher that loaded a
\* deadline that has not passed sets no flag and sleeps again for the time left
\* until it (and the 1ms).
C25_FlagOnlyPastDeadline ==
    [][ /\ (~attemptTimedOut /\ attemptTimedOut') => After(attemptDeadline)
        /\ (watcher.st = "flagged" /\ watcher'.st = "returned") => After(attemptDeadline)
        /\ (watcher.st = "loaded" /\ watcher'.st # "loaded" /\ ~After(watcher.cur)) =>
              /\ attemptTimedOut' = attemptTimedOut
              /\ attemptErr' = attemptErr
              /\ (watcher'.st = "sleeping" => watcher'.left = watcher.cur + WatcherSlack) ]_vars

C27_TornDownBeforeNext ==
    [][started' = started + 1 =>
          /\ attemptErr # "none"
          /\ lateWatchers = 0
          /\ lateLiveness = 0]_vars

\* C28: Run has a live process only while it waits in cmd.Run; it leaves cmd.Run
\* only when that process has exited or was killed; and a process is started only
\* by the processor, when no process of the invocation is left.
C28_OneProcess ==
    /\ [](pc # "wait" => proc = "none")
    /\ [][(pc = "wait" /\ pc' # "wait") => proc # "running"]_vars
    /\ [][(proc' = "running" /\ proc # "running") => (proc = "none" /\ pc = "processor")]_vars

\* C28 witness: the process of a second attempt runs, the first one having been
\* killed by its deadline watcher.
C28_Witness ==
    /\ pc = "wait"
    /\ proc = "running"
    /\ started = 2
    /\ story = "timeouts"

C30_SinkNeverBlocks ==
    /\ (\E s \in Streams : copier[s].st = "send") ~> (\A s \in Streams : copier[s].st # "send")
    /\ (pc = "wait" /\ proc # "running") ~> (pc = "done")

\* C31: every iteration has its own flag, deadline and channel: the flag and the
\* deadline of an iteration are stored only by the code of that iteration, late
\* goroutines included; no two iterations share their locals; and an iteration
\* starts with the flag unset, an empty open channel and an open scope.
C31_OwnedByAttempt ==
    /\ [](\A k \in 1..Len(cells) :
            /\ cells[k].flagBy = cells[k].owner
            /\ cells[k].deadlineBy = cells[k].owner)
    /\ [](\A j, k \in 1..Len(cells) : cells[j].owner = cells[k].owner => j = k)
    /\ [](\A t \in tasks : cells[t.ref].owner = t.att)
    /\ [][(pc # "wait" /\ pc' = "wait") =>
            /\ ~cells'[Current'].flag
            /\ cells'[Current'].n = 0
            /\ ~cells'[Current'].closed
            /\ ~cells'[Current'].done
            /\ cells' = Append(cells, cells'[Current'])]_vars

\* C31 witness: while the second attempt runs, the watcher of the first one has
\* stored the flag of the first, the liveness goroutine of the first is still
\* there, and the flag of the second attempt is unset.
C31_Witness ==
    /\ pc = "wait"
    /\ i = 1
    /\ c.ResetAttemptTimeoutOnOutput
    /\ \E k \in 1..Len(cells) : cells[k].owner = 0 /\ cells[k].flag /\ cells[k].flagAt = 1
    /\ \E t \in tasks : t.att = 0 /\ t.kind = "liveness"
    /\ ~cells[Current].flag
    /\ cells[Current].n > 0

\* C32: the cancellation made by a watcher that found the deadline passed ends the
\* attempt's scope and leaves jobCtx, jobTimedOut, the job timer and the caller's
\* context as they were; after an attempt that timed out, with nothing else
\* canceled, jobCtx is not done; and the attempt after a timed-out one starts with
\* an open scope under a live jobCtx, an unset flag, and a deadline and a watcher
\* set to the attempt timeout from now.
C32_TimeoutCancelsOwnScope ==
    /\ [][(watcher.st = "flagged" /\ watcher'.st = "returned") =>
            /\ Done(attemptErr')
            /\ jobErr' = jobErr
            /\ jobTimedOut' = jobTimedOut
            /\ jobTimer' = jobTimer
            /\ parentErr' = parentErr]_vars
    /\ []((pc \in {"check", "loop"} /\ how = "killedAttempt" /\ parentErr = "none" /\ ~jobTimedOut)
            => jobErr = "none")
    /\ [][(started' = started + 1 /\ flagSeen) =>
            /\ ~attemptTimedOut'
            /\ aliveSignal' = NoChannel
            /\ ~Done(jobErr) =>
                 /\ attemptErr' = "none"
                 /\ attemptDeadline' = c.AttemptTimeout
                 /\ watcher' = [st |-> "sleeping", left |-> c.AttemptTimeout + WatcherSlack,
                                cur |-> 0]]_vars

\* C32 witness: the second attempt runs under an open scope and a live jobCtx
\* after the first one was ended by its watcher, with a total timeout pending.
C32_Witness ==
    /\ pc = "wait"
    /\ proc = "running"
    /\ started = 2
    /\ story = "timeouts"
    /\ c.TotalTimeout > 0
    /\ jobTimer.st = "armed"
    /\ ~jobTimedOut
    /\ jobErr = "none"
    /\ attemptErr = "none"
    /\ ~attemptTimedOut
    /\ watcher.st = "sleeping"

\* C33: without ResetAttemptTimeoutOnOutput a received signal leaves the deadline
\* as it is; the watcher's timer stays in step with the deadline, and the watcher
\* never finds it moved; and a process that runs under an attempt timeout does not
\* run for ever, whatever it writes: once the deadline has passed it is ended.
C33_NoExtensionWhenDisabled ==
    /\ [][(~c.ResetAttemptTimeoutOnOutput /\ liveness = "running"
             /\ aliveSignal'.n = aliveSignal.n - 1 /\ ~aliveSignal'.closed)
            => attemptDeadline' = attemptDeadline]_vars
    /\ [](~c.ResetAttemptTimeoutOnOutput => ~rescheduled)
    /\ []((~c.ResetAttemptTimeoutOnOutput /\ watcher.st = "sleeping")
            => watcher.left = attemptDeadline + WatcherSlack)
    /\ (~c.ResetAttemptTimeoutOnOutput /\ c.AttemptTimeout > 0 /\ pc = "wait" /\ proc = "running")
         ~> (proc # "running")
    /\ (~c.ResetAttemptTimeoutOnOutput /\ proc = "running" /\ After(attemptDeadline))
         ~> (proc # "running")

\* C33 witness: a process that wrote within every gap shorter than the attempt
\* timeout was ended by the watcher all the same.
C33_Witness ==
    /\ ~c.ResetAttemptTimeoutOnOutput
    /\ c.AttemptTimeout = MaxTimeout
    /\ c.TotalTimeout = 0
    /\ parentErr = "none"
    /\ pc = "wait"
    /\ proc = "killedAttempt"
    /\ attemptTimedOut
    /\ silent < c.AttemptTimeout
    /\ burst > 0

\* C34: when Run has returned jobCtx is done; the goroutine of the job timer
\* returns eventually, whether or not the total timeout had fired; and no step
\* taken after the return, a late firing of the timer included, changes Err,
\* Attempts or ExitCode of the Result.
C34_JobTimerCanceled ==
    /\ [](pc = "done" => Done(jobErr))
    /\ (pc = "done") ~> (pc = "done" /\ Returned(jobTimer))
    /\ [][pc = "done" =>
            /\ pc' = "done"
            /\ result' = result
            /\ attempts' = attempts
            /\ exitCode' = exitCode]_vars
    /\ [][(pc = "done" /\ ~jobTimedOut /\ jobTimedOut') =>
            (jobTimer.st = "armed" /\ jobTimer.left = 0 /\ result' = result)]_vars

\* C34 witness: Run has returned nil before the total timeout fired, and the
\* timer's goroutine has returned without firing.
C34_Witness ==
    /\ pc = "done"
    /\ c.TotalTimeout > 0
    /\ result = NoErr
    /\ ~jobTimedOut
    /\ jobTimer.st = "returned"
    /\ how = "exited"

\* C35: whenever Run returns after the job timer's task has stored jobTimedOut,
\* the error it returns is of the deadline-exceeded class, whichever way the
\* attempt in flight ended.
C35_JobTimeoutWins ==
    [][(pc # "done" /\ pc' = "done" /\ jobTimedOut) => IsDeadlineExceeded(result'.wraps)]_vars

\* C36: with collection every attempt starts on three empty buffers; when Run
\* assembles the Result the process of the last attempt has ended and both copying
\* goroutines are done, the buffers hold as many bytes as that process wrote, per
\* stream exactly its writes, and nothing changes them afterwards; the caller's
\* writers hold the writes of all attempts.
C36_FinalAttemptOnly ==
    /\ [][(attempts' = attempts + 1 /\ CollectAllOutput) =>
            /\ stdoutBuffer' = <<>>
            /\ stderrBuffer' = <<>>
            /\ combinedBuffer' = <<>>]_vars
    /\ []((pc = "done" /\ attempts > 0) =>
            /\ proc # "running"
            /\ \A s \in Streams : copier[s].st = "eof" /\ pipe[s] = <<>>)
    /\ []((pc = "done" /\ CollectAllOutput) =>
            /\ stdoutBuffer = Stream(written, "out")
            /\ stderrBuffer = Stream(written, "err")
            /\ Len(stdoutBuffer) + Len(stderrBuffer) = Len(written)
            /\ Len(combinedBuffer) <= Len(written))
    /\ []((pc = "done" /\ sinks) => \A s \in Streams : sink[s] = sent[s])
    /\ [][pc = "done" => UNCHANGED <<stdoutBuffer, stderrBuffer, combinedBuffer, sink>>]_vars

\* C36 witness: Run has returned from a second attempt whose process wrote less
\* than the process of the first: the buffers hold the one byte of the second, the
\* caller's writer of stdout all three bytes written to stdout.
C36_Witness ==
    /\ pc = "done"
    /\ CollectAllOutput
    /\ sinks
    /\ attempts = 2
    /\ Len(written) = 1
    /\ stdoutBuffer = <<1>>
    /\ stderrBuffer = <<>>
    /\ combinedBuffer = <<1>>
    /\ sink["out"] = <<1, 2, 1>>
    /\ sink["err"] = <<>>

\* C37: the step of the loop after an attempt that returned an error is one call
\* of the retry filter, with the error and the flag of that attempt, and the loop
\* goes on exactly when the filter of the Spec answers true for them; the step
\* after an attempt that returned nil calls no filter and returns; so the filter
\* has been called once for each attempt that ended in error, the last permitted
\* one included; and once it has answered false no attempt is started and no
\* filter is called.
C37_FilterOncePerFailure ==
    /\ [][(pc = "check" /\ pc' # pc /\ err # "nil") =>
            /\ calls' = calls + 1
            /\ flagSeen' = attemptTimedOut
            /\ pc' \in {"loop", "classify"}
            /\ c.RetryFilter = "always" => pc' = "loop"
            /\ c.RetryFilter = "never" => pc' = "classify"
            /\ c.RetryFilter = "isTimeout" => (pc' = "loop" <=> attemptTimedOut)
            /\ c.RetryFilter = "default" =>
                 (pc' = "loop" <=> DefaultRetryFilter(err, attemptTimedOut))]_vars
    /\ [][(pc = "check" /\ pc' # pc /\ err = "nil") =>
            /\ calls' = calls
            /\ pc' = "done"
            /\ result' = NoErr]_vars
    /\ [][calls' # calls => (pc = "check" /\ pc' # pc /\ err # "nil")]_vars
    /\ [](calls = IF pc \in {"processor", "wait", "check"} \/ (pc = "done" /\ result = NoErr)
                  THEN started - 1
                  ELSE started)
    /\ [][(pc = "classify" \/ pc = "done") =>
            /\ pc' \in {"classify", "done"}
            /\ started' = started
            /\ attempts' = attempts
            /\ calls' = calls]_vars

\* C37 witness: the filter that asks for the flag was called after the first
\* attempt, which its watcher had ended, and after the second and last permitted
\* attempt, which ended otherwise; it answered false and Run returned.
C37_Witness ==
    /\ pc = "done"
    /\ c.RetryFilter = "isTimeout"
    /\ c.Retries = 1
    /\ started = 2
    /\ calls = 2
    /\ ~flagSeen
    /\ how = "exited"
    /\ result = ErrWrapped("ExitError")

\* C38: a Write to the sfw adds one signal to the channel, whatever the length of
\* what is written, and returns len(p) and no error: the MultiWriter passes the
\* same bytes on to the caller's writer and the copying goroutine reads on; so
\* the caller's writer has received every write once cmd.Run has returned.
C38_OneSignalPerWrite ==
    /\ [][\A s \in Streams : (copier[s].st = "send" /\ copier'[s].st # "send") =>
            /\ aliveSignal'.n = aliveSignal.n + 1
            /\ copier'[s] = Reading
            /\ sinks => sink'[s] = sink[s] \o copier[s].p
            /\ ~sinks => sink' = sink]_vars
    /\ [](\A s \in Streams : copier[s].st = "send" =>
            /\ SfwWrite(aliveSignal, copier[s].p).n = Len(copier[s].p)
            /\ SfwWrite(aliveSignal, copier[s].p).err = "nil"
            /\ SfwWrite(aliveSignal, copier[s].p).ch.n = aliveSignal.n + 1)
    /\ []((pc \in {"check", "done"} /\ sinks) => \A s \in Streams : sink[s] = sent[s])

\* C38 witness: two Writes, one of them of two bytes, have left two signals in
\* the channel and three bytes in the caller's writer of stdout.
C38_Witness ==
    /\ pc = "wait"
    /\ sinks
    /\ aliveSignal.n = 2
    /\ sink["out"] = <<1, 2, 3>>
    /\ written # <<>>
    /\ liveness = "running"

====
